---------------------------- MODULE Spec2Model ----------------------------
(***************************************************************************)
(* Model of the multi-thread socket server of src/main.c (the Windows      *)
(* build, lines 111-659): the semaphore-gated connection handlers, the     *)
(* LRU cache (a doubly linked list guarded by one critical section) and    *)
(* the asynchronous log (a circular buffer drained by one logger thread).  *)
(*                                                                         *)
(* The specifications share the definitions of the code:                  *)
(*   SpecCache  the cache API called sequentially (cache_put / cache_get)  *)
(*   SpecPool   gerenciador_conexoes: the accept loop's handler threads    *)
(*              and the token of semaforo_pool                             *)
(*   SpecReq    processar_requisicao_distribuida run concurrently by the   *)
(*              handlers that hold a token, on the shared cache            *)
(*   SpecLog    escrever_log producers against thread_logger_func          *)
(*   SpecE2E    requests served one at a time, no plugin registered        *)
(*   SpecShut   the shutdown: ConsoleHandler, the accept loop, main's      *)
(*              destruction of the components (SpecShutFair: with          *)
(*              fairness)                                                  *)
(*   SpecLock   every function as its sequence of critical sections        *)
(*   SpecPlug   carregar_plugins, then executar_plugins in the requests    *)
(*              (SpecPlugFalha: a plugin_process may fail)                 *)
(*   SpecBal    adicionar_servidor, then the loader and one handler's      *)
(*              requests                                                   *)
(*   SpecLogFair  SpecLog with the logger thread scheduled fairly          *)
(***************************************************************************)
EXTENDS Integers, Sequences, FiniteSets, TLC

(***************************************************************************)
(* Bounds.  The program's sizes (MAX_THREADS 10, CACHE_CAPACITY 100,       *)
(* LOG_BUFFER_SIZE 1000, MAX_PLUGINS 10) are scaled down; the code is      *)
(* parametric in them.                                                     *)
(***************************************************************************)
\* cache->capacidade, set by criar_cache (CACHE_CAPACITY in the program)
CacheCap == 2
\* number of distinct request payloads / cache keys
NumKeys == 3
\* the tokens of semaforo_pool (MAX_THREADS in the program)
PoolSize == 2
\* MAX_PLUGINS: entries of SistemaPlugins.plugins
MaxPlugins == 2
\* .dll entries FindFirstFileA / FindNextFileA return for ./plugins
NumFiles == 3
\* the 5 of servidores[5], calloc(5, ...) and servidores_ativos < 5
MaxServidores == 2
\* connections the accept loop has handler threads for at one time
NumHandlers == 3
\* log->tamanho_buffer, the slots of buffer_log (LOG_BUFFER_SIZE in the program)
LogSlots == 3
\* threads that call escrever_log
NumProducers == 2
\* calls of escrever_log made in a run
MaxEmit == 5

NULL == 0
NoKey == 0
\* the key "teste1" that main inserts before the server starts
Teste1 == 1
\* the value "Hello Cache!" that main stores under "teste1"
HelloCache == 0
\* a block of the heap that is not allocated
NoVal == -1
\* the thread of main, as the writer of a block
MainThread == 0
NoWriter == -1
\* what a read of a freed block may yield besides the bytes left in it
Garbage == -2

Keys == 1..NumKeys
\* the values the sequential callers store
Values == {1, 2}
\* CacheNode slots: at most capacidade + 1 nodes are linked at once
Nodes == 1..(CacheCap + 1)
\* addresses malloc can return for a node's dados: one block per node slot
Addr == Nodes
\* the handler threads; those of Workers stand for the (at most PoolSize)
\* handlers that hold a token at one time
Handlers == 1..NumHandlers
Producers == 1..NumProducers
Slots == 0..(LogSlots - 1)
\* the owner of mutex_log
NoOwner == 0
\* the critical sections: cache->mutex, log->mutex_log,
\* sistema_plugins_global->mutex, bal->mutex_balanceamento
Locks == {"cache", "log", "plugins", "bal"}
\* a critical section no thread is inside
SemDono == -1
LoggerThread == NumProducers + 1
Workers == 1..PoolSize
Arquivos == 1..NumFiles
SlotsBal == 0..(MaxServidores - 1)
Portas == {8081, 8082}
Pedidos == {1, 2}
\* the threads that use the critical sections: main, the handlers that hold
\* a token, thread_logger_func
LoggerLock == PoolSize + 1
Threads == {MainThread} \cup Workers \cup {LoggerLock}

VARIABLES
    cache,      \* the LRUCache: cabeca, cauda, tamanho and the nodes' fields
    mem,        \* the heap blocks of the nodes' dados
    last,       \* the last cache call of the sequential caller and its result
    touch,      \* keys by last touch, most recent first (history)
    run,        \* keys inserted so far, while every call was a put of a new key
                \* and no more than C+1 were made (history, <<>> afterwards)
    evicted,    \* keys that left the cache during that run (history)
    semaforo_pool,  \* the count of the semaphore
    pc,         \* where each handler thread is
    bytes,      \* what recv returned to it: "none", "data", "empty", "error"
    held,       \* tokens it holds: acquisitions minus releases (history)
    buffer,     \* the payload it received
    dados_cache,\* the pointer cache_get returned to it
    resposta,   \* the response it built
    writer,     \* per resident key, the thread whose cache_put stored last (history)
    buffer_log, \* the slots of the circular buffer: a record, or NULL
    indice_escrita,
    indice_leitura,
    rodando,    \* log->rodando
    cond_log,   \* the auto-reset event is signalled
    mutex_log,  \* the thread inside the critical section of mutex_log
    lpc,        \* where thread_logger_func is
    ppc,        \* where each caller of escrever_log is
    sink,       \* the records written to arquivo_log, in order
    emitidos,   \* calls of escrever_log started (history)
    aceitos,    \* records stored in the buffer; a record is named by its
                \* rank in the order of acceptance (history)
    descartados,\* records dropped on a full buffer (history)
    log_destruido,  \* destruir_sistema_log closed arquivo_log and freed the log
    aceitos_parada, \* aceitos when destruir_sistema_log cleared rodando
                    \* (history; NoVal before)
    servidor_rodando,   \* the flag ConsoleHandler clears
    spc,            \* where servidor_socket is
    mpc,            \* where main is, from the wait for thread_servidor on
    cache_destruido,    \* destruir_cache freed the nodes and the cache
    apos_sinal,     \* the handlers created for a connection that arrived
                    \* after the flag was cleared (history)
    plugins,        \* sistema_plugins_global->plugins[0 .. total_plugins - 1]
    dono,           \* per critical section, the thread inside it
    tprog,          \* per thread, the function it runs, seen as lock operations
    tpc,            \* per thread, how many of these operations it has done
    feito,          \* per handler thread, what it has done so far: responses
                    \* sent, log records of a failed read, calls of
                    \* processar_requisicao_distribuida (history)
    cpc,            \* carregar_plugins: where main is in it
    cpos,           \* carregar_plugins: the directory entry findData holds
    plugin,         \* carregar_plugins: the local Plugin it filled
    inits,          \* per file, how many times its plugin_init ran (history)
    epc,            \* per handler, where it is in
                    \* processar_requisicao_distribuida
    edados,         \* per handler, the payload in buffer
    ei,             \* per handler, the index i of executar_plugins' loop
    traco,          \* per handler, what its request did so far (history)
    mutex_plugins,  \* owner of sistema_plugins_global->mutex
    servidores,     \* balanceador_global->servidores[]: the port of each slot
    servidores_ativos, \* balanceador_global->servidores_ativos
    atual,          \* balanceador_global->atual, the round-robin cursor
    health_check,   \* balanceador_global->health_check[]
    recusado        \* an adicionar_servidor call found the table full (history)

cacheVars == <<cache, mem>>
seqVars == <<last, touch, evicted, run>>
poolVars == <<semaforo_pool, pc, bytes, held>>
reqVars == <<buffer, dados_cache, resposta, writer>>
logVars == <<buffer_log, indice_escrita, indice_leitura, rodando, cond_log,
             mutex_log, lpc, ppc, sink, emitidos, aceitos, descartados,
             log_destruido, aceitos_parada>>
fimVars == <<log_destruido, aceitos_parada>>
shutVars == <<servidor_rodando, spc, mpc, cache_destruido, apos_sinal>>
plugVars == <<plugins>>
lockVars == <<dono, tprog, tpc>>
histVars == <<feito>>
extVars == <<cpc, cpos, plugin, inits, epc, edados, ei, traco, mutex_plugins>>
balVars == <<servidores, servidores_ativos, atual, health_check, recusado>>
restVars == <<shutVars, plugVars, lockVars, histVars, extVars, balVars, balVars>>

vars == <<cache, mem, last, touch, evicted, run, semaforo_pool, pc, bytes, held,
          buffer, dados_cache, resposta, writer,
          buffer_log, indice_escrita, indice_leitura, rodando, cond_log,
          mutex_log, lpc, ppc, sink, emitidos, aceitos, descartados,
          log_destruido, aceitos_parada,
          servidor_rodando, spc, mpc, cache_destruido, apos_sinal,
          plugins, dono, tprog, tpc, feito,
          cpc, cpos, plugin, inits, epc, edados, ei, traco, mutex_plugins,
          servidores, servidores_ativos, atual, health_check, recusado>>

----------------------------------------------------------------------------
(* The heap of dados blocks                                                *)

FreeBlock == [val |-> NoVal, by |-> NoWriter]

FreeAddrs(m) == {a \in Addr : m[a].val = NoVal}

\* malloc(tamanho): the address of a free block.  The allocator modelled
\* hands out block p when it is free (the block freed last in the overwrite
\* branch, the block beside the new node in the insert branch), and the
\* lowest free address otherwise
malloc(m, p) ==
    IF m[p].val = NoVal THEN p
    ELSE CHOOSE a \in FreeAddrs(m) : \A b \in FreeAddrs(m) : a <= b

\* malloc(tamanho) + memcpy(dados): block a now holds v, written by thread w
AllocBlock(m, a, v, w) == [m EXCEPT ![a] = [val |-> v, by |-> w]]

\* free(p)
free(m, a) == [m EXCEPT ![a] = FreeBlock]

----------------------------------------------------------------------------
(* The LRU cache                                                           *)

criar_cache ==
    [cabeca |-> NULL, cauda |-> NULL, tamanho |-> 0,
     chave |-> [n \in Nodes |-> NoKey],
     dados |-> [n \in Nodes |-> NULL],
     proximo |-> [n \in Nodes |-> NULL],
     anterior |-> [n \in Nodes |-> NULL]]

remover_node_cache(c, n) ==
    LET c1 == IF c.anterior[n] # NULL
                THEN [c EXCEPT !.proximo[c.anterior[n]] = c.proximo[n]]
                ELSE [c EXCEPT !.cabeca = c.proximo[n]]
    IN  IF c.proximo[n] # NULL
          THEN [c1 EXCEPT !.anterior[c.proximo[n]] = c.anterior[n]]
          ELSE [c1 EXCEPT !.cauda = c.anterior[n]]

adicionar_no_topo(c, n) ==
    LET c1 == [c EXCEPT !.proximo[n] = c.cabeca, !.anterior[n] = NULL]
        c2 == IF c.cabeca # NULL
                THEN [c1 EXCEPT !.anterior[c.cabeca] = n]
                ELSE c1
        c3 == [c2 EXCEPT !.cabeca = n]
    IN  IF c3.cauda = NULL THEN [c3 EXCEPT !.cauda = n] ELSE c3

\* the loop "while (atual) { if (strcmp(atual->chave, chave) == 0) ...;
\* atual = atual->proximo; }": the first node holding k, or NULL
RECURSIVE Buscar(_, _, _)
Buscar(c, n, k) ==
    IF n = NULL THEN NULL
    ELSE IF c.chave[n] = k THEN n
    ELSE Buscar(c, c.proximo[n], k)

\* malloc(sizeof(CacheNode)): a slot that holds no node
NovoNode(c) == CHOOSE n \in Nodes : c.chave[n] = NoKey /\ \A x \in Nodes : (c.chave[x] = NoKey) => n <= x

\* free(remover->chave); free(remover): the slot holds no node any more
LiberarNode(c, n) ==
    [c EXCEPT !.chave[n] = NoKey, !.dados[n] = NULL,
              !.proximo[n] = NULL, !.anterior[n] = NULL]

\* (mutation) a hit that returns the data without promoting the node
cache_get_hit_NoPromote(c, n) == [cache |-> c, ret |-> c.dados[n]]

\* cache_get once the node is found: promote it and return its dados
cache_get_hit(c, n) ==
    [cache |-> adicionar_no_topo(remover_node_cache(c, n), n), ret |-> c.dados[n]]

\* (mutation) a miss that promotes the last node the loop visited
cache_get_miss_PromoteTail(c) ==
    [cache |-> IF c.cauda # NULL
                 THEN adicionar_no_topo(remover_node_cache(c, c.cauda), c.cauda)
                 ELSE c,
     ret |-> NULL]

\* cache_get when the loop ends without a match
cache_get_miss(c) == [cache |-> c, ret |-> NULL]

cache_get(c, k) ==
    LET n == Buscar(c, c.cabeca, k)
    IN  IF n # NULL THEN cache_get_hit(c, n) ELSE cache_get_miss(c)

\* (mutation) an overwrite that promotes the node and keeps its old data
cache_put_hit_KeepData(c, m, n, v, w) ==
    [cache |-> adicionar_no_topo(remover_node_cache(c, n), n), mem |-> m]

\* cache_put on a key found in node n: free the old data, store a copy of
\* the new one, promote the node
cache_put_hit(c, m, n, v, w) ==
    LET m1 == free(m, c.dados[n])
        a == malloc(m1, c.dados[n])
        c1 == [c EXCEPT !.dados[n] = a]
    IN  [cache |-> adicionar_no_topo(remover_node_cache(c1, n), n),
         mem |-> AllocBlock(m1, a, v, w)]

\* cache_put on a key not found: insert at the head, evict the tail when
\* the size exceeds the capacity
cache_put_new(c, m, k, v, w) ==
    LET n == NovoNode(c)
        a == malloc(m, n)
        c1 == [c EXCEPT !.chave[n] = k, !.dados[n] = a]
        c2 == adicionar_no_topo(c1, n)
        c3 == [c2 EXCEPT !.tamanho = c2.tamanho + 1]
        m3 == AllocBlock(m, a, v, w)
    IN  IF c3.tamanho > CacheCap
          THEN LET r == c3.cauda
                   c4 == remover_node_cache(c3, r)
                   c5 == LiberarNode(c4, r)
               IN  [cache |-> [c5 EXCEPT !.tamanho = c5.tamanho - 1],
                    mem |-> free(m3, c3.dados[r])]
          ELSE [cache |-> c3, mem |-> m3]

\* (mutation) a put that inserts a new node without looking for the key
cache_put_NoSearch(c, m, k, v, w) == cache_put_new(c, m, k, v, w)

cache_put(c, m, k, v, w) ==
    LET n == Buscar(c, c.cabeca, k)
    IN  IF n # NULL THEN cache_put_hit(c, m, n, v, w)
        ELSE cache_put_new(c, m, k, v, w)

----------------------------------------------------------------------------
(* Reading the list, for the properties                                    *)

\* the nodes from n following proximo, at most f of them
RECURSIVE Walk(_, _, _)
Walk(c, n, f) ==
    IF n = NULL \/ f = 0 THEN <<>> ELSE <<n>> \o Walk(c, c.proximo[n], f - 1)

\* the nodes from n following anterior, at most f of them
RECURSIVE WalkBack(_, _, _)
WalkBack(c, n, f) ==
    IF n = NULL \/ f = 0 THEN <<>> ELSE <<n>> \o WalkBack(c, c.anterior[n], f - 1)

Fuel == Cardinality(Nodes) + 1

Reverse(s) == [i \in 1..Len(s) |-> s[Len(s) + 1 - i]]

\* the list from head to tail, as nodes and as keys
ListNodes(c) == Walk(c, c.cabeca, Fuel)
ListKeys(c) == LET l == ListNodes(c) IN [i \in 1..Len(l) |-> c.chave[l[i]]]
ResidentKeys(c) == LET l == ListNodes(c) IN {c.chave[l[i]] : i \in 1..Len(l)}

\* the links are those of a doubly linked list of tamanho distinct nodes
LinksOk(c) ==
    LET l == ListNodes(c)
    IN  /\ Len(l) = c.tamanho
        /\ Cardinality({l[i] : i \in 1..Len(l)}) = c.tamanho
        /\ WalkBack(c, c.cauda, Fuel) = Reverse(l)
        /\ \A n \in Nodes : (c.chave[n] # NoKey) <=> (\E i \in 1..Len(l) : l[i] = n)

NoDuplicateKeys(c) == Cardinality(ResidentKeys(c)) = Len(ListKeys(c))

\* the value a caller reads through the pointer p that cache_get returned
Deref(m, p) == IF p = NULL THEN NoVal ELSE m[p].val

\* the value stored under k, NoVal when k is not resident
ValueOf(c, m, k) ==
    LET n == Buscar(c, c.cabeca, k) IN IF n = NULL THEN NoVal ELSE m[c.dados[n]].val

----------------------------------------------------------------------------
(* SpecCache: cache_put and cache_get called one after the other           *)

\* s with k moved (or put) to the front
Front(s, k) == <<k>> \o SelectSeq(s, LAMBDA x : x # k)

Min(a, b) == IF a <= b THEN a ELSE b

\* the C most recently touched keys of the history, most recent first
Top(s) == SubSeq(s, 1, Min(CacheCap, Len(s)))

InSeq(s, k) == \E i \in 1..Len(s) : s[i] = k

\* a call of the sequential caller: op(key, val) returned ret; a put found
\* old under the key (NoVal: not resident) in a cache of size0 entries; for
\* a get that directly follows a put of the same key, rt is the value that
\* put stored and rtold the value it replaced
NoCall == [op |-> "none", key |-> NoKey, val |-> NoVal, ret |-> NoVal,
           old |-> NoVal, size0 |-> 0, rt |-> NoVal, rtold |-> NoVal]

InitCacheVars ==
    /\ cache = criar_cache
    /\ mem = [a \in Addr |-> FreeBlock]
    /\ last = NoCall
    /\ touch = <<>>
    /\ evicted = {}
    /\ run = <<>>

\* cache_put(cache, k, v, tamanho) by the sequential caller
SeqPut(k, v) ==
    LET r == cache_put(cache, mem, k, v, MainThread)
        \* every call so far, this one included, is a put of a new key,
        \* and there are at most C+1 of them
        PureRun == /\ last.op \in {"none", "put"}
                   /\ run = Reverse(touch)
                   /\ ~InSeq(touch, k)
                   /\ Len(run) <= CacheCap
    IN  /\ cache' = r.cache
        /\ mem' = r.mem
        /\ last' = [NoCall EXCEPT !.op = "put", !.key = k, !.val = v,
                                  !.old = ValueOf(cache, mem, k),
                                  !.size0 = cache.tamanho]
        /\ touch' = Front(touch, k)
        /\ run' = IF PureRun THEN Append(run, k) ELSE <<>>
        /\ evicted' = IF PureRun
                        THEN evicted \cup (ResidentKeys(cache) \ ResidentKeys(r.cache))
                        ELSE {}

\* cache_get(cache, k) by the sequential caller, who reads the value returned
SeqGet(k) ==
    LET r == cache_get(cache, k)
        after == last.op = "put" /\ last.key = k
    IN  /\ cache' = r.cache
        /\ mem' = mem
        /\ last' = [NoCall EXCEPT !.op = "get", !.key = k,
                                  !.ret = Deref(mem, r.ret),
                                  !.rt = IF after THEN last.val ELSE NoVal,
                                  !.rtold = IF after THEN last.old ELSE NoVal]
        /\ touch' = IF InSeq(Top(touch), k) THEN Front(touch, k) ELSE touch
        /\ run' = <<>>
        /\ evicted' = {}

NextCache ==
    \/ \E k \in Keys, v \in Values : SeqPut(k, v) /\ UNCHANGED <<poolVars, reqVars, logVars, restVars>>
    \/ \E k \in Keys : SeqGet(k) /\ UNCHANGED <<poolVars, reqVars, logVars, restVars>>

----------------------------------------------------------------------------
(* The handler threads                                                     *)

NoResposta == [tipo |-> "none", val |-> NoVal]

\* criar_sistema_log: empty buffer, both indices 0, the logger thread started
InitLog ==
    /\ buffer_log = [i \in Slots |-> NULL]
    /\ indice_escrita = 0
    /\ indice_leitura = 0
    /\ rodando = TRUE
    /\ cond_log = FALSE
    /\ mutex_log = NoOwner
    /\ lpc = "test"
    /\ ppc = [p \in Producers |-> "idle"]
    /\ sink = <<>>
    /\ emitidos = 0
    /\ aceitos = 0
    /\ descartados = 0
    /\ log_destruido = FALSE
    /\ aceitos_parada = NoVal

\* the local Plugin of carregar_plugins before it is filled
SemPlugin == [nome |-> 0, init |-> FALSE, process |-> FALSE]

\* main before carregar_plugins("./plugins"); no request yet
InitExt ==
    /\ cpc = "find"
    /\ cpos = 1
    /\ plugin = SemPlugin
    /\ inits = [f \in Arquivos |-> 0]
    /\ epc = [w \in Workers |-> "idle"]
    /\ edados = [w \in Workers |-> NoKey]
    /\ ei = [w \in Workers |-> 0]
    /\ traco = [w \in Workers |-> <<>>]
    /\ mutex_plugins = SemDono

\* criar_balanceador: malloc leaves servidores[] unset, atual = 0,
\* servidores_ativos = 0, health_check = calloc(5, sizeof(int))
InitBal ==
    /\ servidores = [i \in SlotsBal |-> Garbage]
    /\ servidores_ativos = 0
    /\ atual = 0
    /\ health_check = [i \in SlotsBal |-> 0]
    /\ recusado = FALSE

\* a thread that has just been created
NadaFeito == [envios |-> 0, eventos |-> 0, ops |-> 0]

\* criar_sistema_plugins: total_plugins = 0
InitPlug == plugins = <<>>

\* the four critical sections, as InitializeCriticalSection leaves them;
\* main about to run its initialisation, thread_logger_func in its loop, no
\* handler yet
InitLock ==
    /\ dono = [l \in Locks |-> SemDono]
    /\ tprog = [t \in Threads |-> IF t = LoggerLock THEN "logger" ELSE "none"]
    /\ tpc = [t \in Threads |-> 0]

\* main has started servidor_socket and waits for it; the console handler
\* has not run
InitShut ==
    /\ servidor_rodando = TRUE
    /\ spc = "test"
    /\ mpc = "wait"
    /\ cache_destruido = FALSE
    /\ apos_sinal = {}

\* the response text processar_requisicao_distribuida computes for payload k
\* ("Processado: <k> ..."): a function of the payload alone
Resposta(k) == 100 + k

\* the state the threads start in
InitThreads ==
    /\ semaforo_pool = PoolSize
    /\ pc = [h \in Handlers |-> "idle"]
    /\ bytes = [h \in Handlers |-> "none"]
    /\ held = [h \in Handlers |-> 0]
    /\ buffer = [h \in Handlers |-> NoKey]
    /\ dados_cache = [h \in Handlers |-> NULL]
    /\ resposta = [h \in Handlers |-> NoResposta]
    /\ InitLog
    /\ InitShut
    /\ InitPlug
    /\ InitLock
    /\ feito = [h \in Handlers |-> NadaFeito]
    /\ InitExt
    /\ InitBal

\* SpecCache starts from the cache criar_cache returns
InitCache ==
    /\ InitCacheVars
    /\ InitThreads
    /\ writer = [k \in Keys |-> NoWriter]

\* main before it starts the server: criar_cache, then
\* cache_put(cache_global, "teste1", "Hello Cache!") and cache_get of it
Init ==
    LET p == cache_put(criar_cache, [a \in Addr |-> FreeBlock], Teste1, HelloCache, MainThread)
        g == cache_get(p.cache, Teste1)
    IN  /\ cache = g.cache
        /\ mem = p.mem
        /\ last = NoCall
        /\ touch = <<>>
        /\ evicted = {}
        /\ run = <<>>
        /\ InitThreads
        /\ writer = [k \in Keys |-> IF k = Teste1 THEN MainThread ELSE NoWriter]

SpecCache == InitCache /\ [][NextCache]_vars

\* (mutation) a wait that also succeeds on a count of zero
SemWait_OffByOne(s) == s >= 0

\* WaitForSingleObject(semaforo, INFINITE) returns when the count is positive
SemWait(s) == s > 0

\* ReleaseSemaphore(semaforo, 1, NULL): fails, changing nothing, when the
\* count would exceed the maximum CreateSemaphore was given
ReleaseSemaphore(s) == IF s + 1 <= PoolSize THEN s + 1 ELSE s

\* servidor_socket: accept returned a connection and CreateThread started
\* gerenciador_conexoes for it (h: a thread slot that runs no handler)
Accept(h) ==
    /\ pc[h] \in {"idle", "done"}
    /\ pc' = [pc EXCEPT ![h] = "wait"]
    /\ bytes' = [bytes EXCEPT ![h] = "none"]
    /\ feito' = [feito EXCEPT ![h] = NadaFeito]
    /\ UNCHANGED <<semaforo_pool, held, cacheVars, seqVars, reqVars, logVars,
                   shutVars, plugVars, lockVars, extVars, balVars>>

\* gerenciador_conexoes: WaitForSingleObject(*conexao->semaforo, INFINITE)
Acquire(h) ==
    /\ pc[h] = "wait"
    /\ SemWait(semaforo_pool)
    /\ semaforo_pool' = semaforo_pool - 1
    /\ held' = [held EXCEPT ![h] = @ + 1]
    /\ pc' = [pc EXCEPT ![h] = "recv"]
    /\ UNCHANGED <<bytes, cacheVars, seqVars, reqVars, logVars, restVars>>

\* recv returned bytes_recebidos > 0: the payload k
RecvData(h, k) ==
    /\ pc[h] = "recv"
    /\ pc' = [pc EXCEPT ![h] = "proc"]
    /\ bytes' = [bytes EXCEPT ![h] = "data"]
    /\ buffer' = [buffer EXCEPT ![h] = k]
    /\ UNCHANGED <<semaforo_pool, held, cacheVars, seqVars, dados_cache, resposta, writer, logVars, restVars>>

\* recv returned 0 (the peer closed) or a negative value (an error)
RecvFail(h, r) ==
    /\ pc[h] = "recv"
    /\ pc' = [pc EXCEPT ![h] = "logev"]
    /\ bytes' = [bytes EXCEPT ![h] = r]
    /\ UNCHANGED <<semaforo_pool, held, cacheVars, seqVars, reqVars, logVars, restVars>>

\* processar_requisicao_distribuida(buffer, conexao) returned: it used the
\* cache and the plugins and sent one response (its steps on the cache are
\* those of SpecReq)
Process(h) ==
    /\ pc[h] = "proc"
    /\ pc' = [pc EXCEPT ![h] = "release"]
    /\ buffer' = [buffer EXCEPT ![h] = NoKey]
    /\ feito' = [feito EXCEPT ![h].ops = @ + 1, ![h].envios = @ + 1]
    /\ UNCHANGED <<semaforo_pool, bytes, held, cacheVars, seqVars, dados_cache, resposta,
                   writer, logVars, shutVars, plugVars, lockVars, extVars, balVars>>

\* (mutation) a failed read answered with a response instead of a record
LogEvent_ComResposta(h) ==
    /\ pc[h] = "logev"
    /\ pc' = [pc EXCEPT ![h] = "release"]
    /\ feito' = [feito EXCEPT ![h].envios = @ + 1]
    /\ UNCHANGED <<semaforo_pool, bytes, held, cacheVars, seqVars, reqVars, logVars,
                   shutVars, plugVars, lockVars, extVars, balVars>>

\* escrever_log("Cliente desconectou") / escrever_log("Erro ao receber dados")
LogEvent(h) ==
    /\ pc[h] = "logev"
    /\ pc' = [pc EXCEPT ![h] = "release"]
    /\ feito' = [feito EXCEPT ![h].eventos = @ + 1]
    /\ UNCHANGED <<semaforo_pool, bytes, held, cacheVars, seqVars, reqVars, logVars,
                   shutVars, plugVars, lockVars, extVars, balVars>>

\* (mutation) a handler that returns early, without the release, when recv
\* failed
Release_SkipOnError(h) ==
    /\ pc[h] = "release"
    /\ semaforo_pool' = IF bytes[h] = "error" THEN semaforo_pool
                        ELSE ReleaseSemaphore(semaforo_pool)
    /\ held' = [held EXCEPT ![h] = IF bytes[h] = "error" THEN @ ELSE @ - 1]
    /\ pc' = [pc EXCEPT ![h] = "done"]
    /\ UNCHANGED <<bytes, cacheVars, seqVars, reqVars, logVars, restVars>>

\* ReleaseSemaphore(*conexao->semaforo, 1, NULL); closesocket; free; return
Release(h) ==
    /\ pc[h] = "release"
    /\ semaforo_pool' = ReleaseSemaphore(semaforo_pool)
    /\ held' = [held EXCEPT ![h] = @ - 1]
    /\ pc' = [pc EXCEPT ![h] = "done"]
    /\ UNCHANGED <<bytes, cacheVars, seqVars, reqVars, logVars, restVars>>

NextPool ==
    \/ \E h \in Handlers : Accept(h)
    \/ \E h \in Handlers : Acquire(h)
    \/ \E h \in Handlers, k \in Keys : RecvData(h, k)
    \/ \E h \in Handlers, r \in {"empty", "error"} : RecvFail(h, r)
    \/ \E h \in Handlers : Process(h)
    \/ \E h \in Handlers : LogEvent(h)
    \/ \E h \in Handlers : Release(h)

SpecPool == Init /\ [][NextPool]_vars

\* the handlers between the acquisition of the token and its release
Holders == {h \in Handlers : pc[h] \in {"recv", "proc", "logev", "release"}}

RECURSIVE Sum(_, _)
Sum(f, S) == IF S = {} THEN 0 ELSE LET x == CHOOSE y \in S : TRUE IN f[x] + Sum(f, S \ {x})



----------------------------------------------------------------------------
(* SpecReq: the request pipeline of the handlers that hold a token.  Each   *)
(* cache call is one step: its whole body runs between                     *)
(* EnterCriticalSection(&cache->mutex) and LeaveCriticalSection, so no      *)
(* other cache call interleaves with it.  What a handler does with the     *)
(* pointer cache_get returned happens after LeaveCriticalSection, in a     *)
(* step of its own.  The escrever_log calls of the pipeline touch neither  *)
(* the cache nor the semaphore; they are the producers of SpecLog.         *)

\* the values that some cache_put of the program stores under key k
PutValues(k) == {Resposta(k)} \cup (IF k = Teste1 THEN {HelloCache} ELSE {})

\* the keys whose writer is still known: those resident in c
WriterAfter(w, c) == [k \in Keys |-> IF k \in ResidentKeys(c) THEN w[k] ELSE NoWriter]

\* gerenciador_conexoes up to the call of processar_requisicao_distribuida:
\* the thread was created, took a token, and recv returned the payload k
Requisicao(h, k) ==
    /\ pc[h] = "idle"
    /\ SemWait(semaforo_pool)
    /\ semaforo_pool' = semaforo_pool - 1
    /\ held' = [held EXCEPT ![h] = @ + 1]
    /\ bytes' = [bytes EXCEPT ![h] = "data"]
    /\ buffer' = [buffer EXCEPT ![h] = k]
    /\ pc' = [pc EXCEPT ![h] = "proc"]
    /\ UNCHANGED <<cacheVars, seqVars, dados_cache, resposta, writer, logVars, restVars>>

\* void *dados_cache = cache_get(cache_global, buffer);
ReqCacheGet(h) ==
    LET r == cache_get(cache, buffer[h])
    IN  /\ pc[h] = "proc"
        /\ cache' = r.cache
        /\ dados_cache' = [dados_cache EXCEPT ![h] = r.ret]
        /\ pc' = [pc EXCEPT ![h] = IF r.ret # NULL THEN "hit" ELSE "miss"]
        /\ UNCHANGED <<mem, seqVars, semaforo_pool, bytes, held, buffer, resposta, writer, logVars, restVars>>

\* what snprintf("%s", (char*)dados_cache) can read at p for payload k: the
\* block's content while it is allocated (to whatever node it now belongs);
\* once freed, the bytes left there or anything else
LeituraDados(m, p, k) ==
    IF m[p].val # NoVal THEN {m[p].val} ELSE PutValues(k) \cup {Garbage}

\* the hit branch: snprintf(resposta, ..., "Resposta do CACHE: %s", dados_cache)
ReqBuildHit(h) ==
    /\ pc[h] = "hit"
    /\ \E v \in LeituraDados(mem, dados_cache[h], buffer[h]) :
          resposta' = [resposta EXCEPT ![h] = [tipo |-> "cache", val |-> v]]
    /\ dados_cache' = [dados_cache EXCEPT ![h] = NULL]
    /\ pc' = [pc EXCEPT ![h] = "send"]
    /\ UNCHANGED <<cacheVars, seqVars, semaforo_pool, bytes, held, buffer, writer, logVars, restVars>>

\* (mutation) a miss branch that builds the response and does not store it
ReqCachePut_NaoGuarda(h) ==
    /\ pc[h] = "miss"
    /\ resposta' = [resposta EXCEPT ![h] = [tipo |-> "computed", val |-> Resposta(buffer[h])]]
    /\ pc' = [pc EXCEPT ![h] = "send"]
    /\ UNCHANGED <<cacheVars, writer, seqVars, semaforo_pool, bytes, held, buffer,
                   dados_cache, logVars, restVars>>

\* the miss branch: snprintf(resposta, ..., "Processado: %s ...", buffer);
\* cache_put(cache_global, buffer, resposta, strlen(resposta) + 1);
ReqCachePut(h) ==
    LET r == cache_put(cache, mem, buffer[h], Resposta(buffer[h]), h)
    IN  /\ pc[h] = "miss"
        /\ cache' = r.cache
        /\ mem' = r.mem
        /\ writer' = WriterAfter([writer EXCEPT ![buffer[h]] = h], r.cache)
        /\ resposta' = [resposta EXCEPT ![h] = [tipo |-> "computed", val |-> Resposta(buffer[h])]]
        /\ pc' = [pc EXCEPT ![h] = "send"]
        /\ UNCHANGED <<seqVars, semaforo_pool, bytes, held, buffer, dados_cache, logVars, restVars>>

\* executar_plugins (no plugin registered) and send(resposta); back in
\* gerenciador_conexoes: ReleaseSemaphore, closesocket, free, return
ReqSend(h) ==
    /\ pc[h] = "send"
    /\ semaforo_pool' = ReleaseSemaphore(semaforo_pool)
    /\ held' = [held EXCEPT ![h] = @ - 1]
    /\ bytes' = [bytes EXCEPT ![h] = "none"]
    /\ buffer' = [buffer EXCEPT ![h] = NoKey]
    /\ resposta' = [resposta EXCEPT ![h] = NoResposta]
    /\ pc' = [pc EXCEPT ![h] = "idle"]
    /\ UNCHANGED <<cacheVars, seqVars, dados_cache, writer, logVars, restVars>>

NextReq ==
    \/ \E h \in Workers, k \in Keys : Requisicao(h, k)
    \/ \E h \in Workers : ReqCacheGet(h)
    \/ \E h \in Workers : ReqBuildHit(h)
    \/ \E h \in Workers : ReqCachePut(h)
    \/ \E h \in Workers : ReqSend(h)

SpecReq == Init /\ [][NextReq]_vars

----------------------------------------------------------------------------
(* SpecE2E: requests served one after the other, by one handler at a time,  *)
(* with no plugin registered.                                               *)

\* the handler of the only connection open
Unico == 1

NextE2E ==
    \/ \E k \in Keys : Requisicao(Unico, k)
    \/ ReqCacheGet(Unico)
    \/ ReqBuildHit(Unico)
    \/ ReqCachePut(Unico)
    \/ ReqSend(Unico)

SpecE2E == Init /\ [][NextE2E]_vars

----------------------------------------------------------------------------
(* SpecLog: the log pipeline.  Callers of escrever_log (the handlers, main, *)
(* the plugin loader) against thread_logger_func.  A caller formats its    *)
(* record and reaches EnterCriticalSection(&log->mutex_log); once inside   *)
(* it stores or drops the record and leaves, in one step.  The logger      *)
(* keeps mutex_log over several steps: one per record it writes.           *)

notLog == <<cacheVars, seqVars, poolVars, reqVars, restVars>>

\* (i + 1) % log->tamanho_buffer
Proximo(i) == (i + 1) % LogSlots

\* (mutation) a buffer that is never taken to be full
BufferCheio_Never(esc, ler) == FALSE

\* escrever_log drops the record when "proximo != log->indice_leitura" fails
BufferCheio(esc, ler) == Proximo(esc) = ler

\* escrever_log up to EnterCriticalSection: the record is formatted
Emit(p) ==
    /\ ppc[p] = "idle"
    /\ emitidos < MaxEmit
    /\ emitidos' = emitidos + 1
    /\ ppc' = [ppc EXCEPT ![p] = "lock"]
    /\ UNCHANGED <<buffer_log, indice_escrita, indice_leitura, rodando, cond_log,
                   mutex_log, lpc, sink, aceitos, descartados, fimVars, notLog>>

\* escrever_log inside the critical section, the buffer not full: store the
\* record at indice_escrita, advance the index, SetEvent
Enqueue(p) ==
    /\ ppc[p] = "lock"
    /\ ~log_destruido
    /\ mutex_log = NoOwner
    /\ ~BufferCheio(indice_escrita, indice_leitura)
    /\ buffer_log' = [buffer_log EXCEPT ![indice_escrita] = aceitos + 1]
    /\ indice_escrita' = Proximo(indice_escrita)
    /\ aceitos' = aceitos + 1
    /\ cond_log' = TRUE
    /\ ppc' = [ppc EXCEPT ![p] = "idle"]
    /\ UNCHANGED <<indice_leitura, rodando, mutex_log, lpc, sink, emitidos,
                   descartados, fimVars, notLog>>

\* escrever_log inside the critical section, the buffer full: nothing is
\* stored and no event is set
Drop(p) ==
    /\ ppc[p] = "lock"
    /\ ~log_destruido
    /\ mutex_log = NoOwner
    /\ BufferCheio(indice_escrita, indice_leitura)
    /\ descartados' = descartados + 1
    /\ ppc' = [ppc EXCEPT ![p] = "idle"]
    /\ UNCHANGED <<buffer_log, indice_escrita, indice_leitura, rodando, cond_log,
                   mutex_log, lpc, sink, emitidos, aceitos, fimVars, notLog>>

\* (mutation) a logger that returns as soon as the buffer is empty
LoggerContinua_SoBuffer == indice_leitura # indice_escrita

\* (mutation) a logger that returns as soon as rodando is cleared
LoggerContinua_SoRodando == rodando

\* the condition of the outer while of thread_logger_func
LoggerContinua == rodando \/ indice_leitura # indice_escrita

\* while (log->rodando || log->indice_leitura != log->indice_escrita),
\* read without the lock; return 0 when it fails
LoggerTest ==
    /\ lpc = "test"
    /\ lpc' = IF LoggerContinua THEN "enter" ELSE "exit"
    /\ UNCHANGED <<buffer_log, indice_escrita, indice_leitura, rodando, cond_log,
                   mutex_log, ppc, sink, emitidos, aceitos, descartados, fimVars, notLog>>

\* EnterCriticalSection(&log->mutex_log), at the top of the loop body and
\* after the wait
LoggerEnter ==
    /\ lpc \in {"enter", "reenter"}
    /\ mutex_log = NoOwner
    /\ mutex_log' = LoggerThread
    /\ lpc' = "check"
    /\ UNCHANGED <<buffer_log, indice_escrita, indice_leitura, rodando, cond_log,
                   ppc, sink, emitidos, aceitos, descartados, fimVars, notLog>>

\* while (indice_leitura == indice_escrita && rodando): leave the critical
\* section and wait; otherwise go on to the drain loop
LoggerCheck ==
    /\ lpc = "check"
    /\ IF indice_leitura = indice_escrita /\ rodando
         THEN /\ mutex_log' = NoOwner
              /\ lpc' = "wait"
         ELSE /\ mutex_log' = mutex_log
              /\ lpc' = "drain"
    /\ UNCHANGED <<buffer_log, indice_escrita, indice_leitura, rodando, cond_log,
                   ppc, sink, emitidos, aceitos, descartados, fimVars, notLog>>

\* WaitForSingleObject(log->cond_log, 100) returns: the event was signalled
\* (and is reset), or the 100 ms passed
LoggerWait ==
    /\ lpc = "wait"
    /\ cond_log' = FALSE
    /\ lpc' = "reenter"
    /\ UNCHANGED <<buffer_log, indice_escrita, indice_leitura, rodando,
                   mutex_log, ppc, sink, emitidos, aceitos, descartados, fimVars, notLog>>

\* one turn of while (indice_leitura != indice_escrita): fprintf + fflush of
\* the record in the slot (when it is not NULL), free, slot = NULL, advance
LoggerWrite ==
    /\ lpc = "drain"
    /\ indice_leitura # indice_escrita
    /\ sink' = IF buffer_log[indice_leitura] # NULL
                 THEN Append(sink, buffer_log[indice_leitura]) ELSE sink
    /\ buffer_log' = [buffer_log EXCEPT ![indice_leitura] = NULL]
    /\ indice_leitura' = Proximo(indice_leitura)
    /\ UNCHANGED <<indice_escrita, rodando, cond_log, mutex_log, lpc, ppc,
                   emitidos, aceitos, descartados, fimVars, notLog>>

\* the drain loop ends: LeaveCriticalSection, back to the outer test
LoggerLeave ==
    /\ lpc = "drain"
    /\ indice_leitura = indice_escrita
    /\ mutex_log' = NoOwner
    /\ lpc' = "test"
    /\ UNCHANGED <<buffer_log, indice_escrita, indice_leitura, rodando, cond_log,
                   ppc, sink, emitidos, aceitos, descartados, fimVars, notLog>>

\* destruir_sistema_log, its first two statements: rodando = 0; SetEvent
LogStop ==
    /\ rodando
    /\ rodando' = FALSE
    /\ cond_log' = TRUE
    /\ aceitos_parada' = aceitos
    /\ UNCHANGED <<buffer_log, indice_escrita, indice_leitura, mutex_log, lpc,
                   ppc, sink, emitidos, aceitos, descartados, log_destruido, notLog>>

\* destruir_sistema_log after the stop: WaitForSingleObject(thread_logger)
\* returns once the logger has returned; fclose(arquivo_log), the records
\* left in the buffer and the log itself are freed
LogJoin ==
    /\ ~rodando
    /\ lpc = "exit"
    /\ ~log_destruido
    /\ log_destruido' = TRUE
    /\ buffer_log' = [i \in Slots |-> NULL]
    /\ UNCHANGED <<indice_escrita, indice_leitura, rodando, cond_log, mutex_log,
                   lpc, ppc, sink, emitidos, aceitos, descartados, aceitos_parada,
                   notLog>>

\* escrever_log on a log that destruir_sistema_log has freed: the call
\* enters a deleted critical section and reads freed memory; it may return
\* or never return ("falha": the thread hangs or the process faults)
EscreverLogDestruido(p) ==
    /\ ppc[p] = "lock"
    /\ log_destruido
    /\ \E r \in {"idle", "falha"} : ppc' = [ppc EXCEPT ![p] = r]
    /\ UNCHANGED <<buffer_log, indice_escrita, indice_leitura, rodando, cond_log,
                   mutex_log, lpc, sink, emitidos, aceitos, descartados, fimVars,
                   notLog>>

NextLog ==
    \/ \E p \in Producers : Emit(p)
    \/ \E p \in Producers : Enqueue(p)
    \/ \E p \in Producers : Drop(p)
    \/ LoggerTest
    \/ LoggerEnter
    \/ LoggerCheck
    \/ LoggerWait
    \/ LoggerWrite
    \/ LoggerLeave
    \/ LogStop
    \/ LogJoin
    \/ \E p \in Producers : EscreverLogDestruido(p)

SpecLog == Init /\ [][NextLog]_vars

\* the logger thread is scheduled, its wait returns after 100 ms at the
\* latest, and main goes on once its wait for the logger thread returns
JusticaLog ==
    /\ WF_vars(LoggerTest)
    /\ WF_vars(LoggerEnter)
    /\ WF_vars(LoggerCheck)
    /\ WF_vars(LoggerWait)
    /\ WF_vars(LoggerWrite)
    /\ WF_vars(LoggerLeave)
    /\ WF_vars(LogJoin)

SpecLogFair == SpecLog /\ JusticaLog

\* the records waiting in the buffer, oldest first: the slots from
\* indice_leitura up to indice_escrita
RECURSIVE Pendentes(_, _, _)
Pendentes(i, j, f) ==
    IF i = j \/ f = 0 THEN <<>> ELSE <<buffer_log[i]>> \o Pendentes((i + 1) % LogSlots, j, f - 1)

\* <<a, a+1, ..., b>>
Range(a, b) == [i \in 1..(b - a + 1) |-> a + i - 1]

----------------------------------------------------------------------------
(* SpecShut: the shutdown.  servidor_socket runs its accept loop and creates *)
(* a handler thread per connection; ConsoleHandler clears servidor_rodando; *)
(* main waits for servidor_socket alone and then destroys the cache, the    *)
(* balancer and the log and returns, which ends the process.  The handlers  *)
(* are those of SpecPool; thread_logger_func is seen through its return.    *)

\* the process has not ended: main has not returned
Vivo == mpc # "done"

\* ConsoleHandler(CTRL_C_EVENT): servidor_rodando = 0
Sinal ==
    /\ Vivo
    /\ servidor_rodando
    /\ servidor_rodando' = FALSE
    /\ UNCHANGED <<spc, mpc, cache_destruido, apos_sinal,
                   cacheVars, seqVars, poolVars, reqVars, logVars,
                   plugVars, lockVars, histVars, extVars, balVars, balVars>>

\* servidor_socket: while (servidor_rodando); when it fails closesocket,
\* WSACleanup, return
ServTest ==
    /\ Vivo
    /\ spc = "test"
    /\ spc' = IF servidor_rodando THEN "accept" ELSE "exit"
    /\ UNCHANGED <<servidor_rodando, mpc, cache_destruido, apos_sinal,
                   cacheVars, seqVars, poolVars, reqVars, logVars,
                   plugVars, lockVars, histVars, extVars, balVars, balVars>>

\* a connection arrives, accept returns it and CreateThread starts
\* gerenciador_conexoes for it; the flag is not read between accept and
\* CreateThread
ServAccept(h) ==
    /\ Vivo
    /\ spc = "accept"
    /\ pc[h] \in {"idle", "done"}
    /\ pc' = [pc EXCEPT ![h] = "wait"]
    /\ bytes' = [bytes EXCEPT ![h] = "none"]
    /\ apos_sinal' = IF servidor_rodando THEN apos_sinal \ {h} ELSE apos_sinal \cup {h}
    /\ spc' = "test"
    /\ feito' = [feito EXCEPT ![h] = NadaFeito]
    /\ UNCHANGED <<servidor_rodando, mpc, cache_destruido, semaforo_pool, held,
                   cacheVars, seqVars, reqVars, logVars,
                   plugVars, lockVars, extVars, balVars>>

\* accept returns INVALID_SOCKET: continue
ServAcceptErro ==
    /\ Vivo
    /\ spc = "accept"
    /\ spc' = "test"
    /\ UNCHANGED <<servidor_rodando, mpc, cache_destruido, apos_sinal,
                   cacheVars, seqVars, poolVars, reqVars, logVars,
                   plugVars, lockVars, histVars, extVars, balVars, balVars>>

\* main: WaitForSingleObject(thread_servidor, INFINITE) returns
MainWait ==
    /\ mpc = "wait"
    /\ spc = "exit"
    /\ mpc' = "cache"
    /\ UNCHANGED <<servidor_rodando, spc, cache_destruido, apos_sinal,
                   cacheVars, seqVars, poolVars, reqVars, logVars,
                   plugVars, lockVars, histVars, extVars, balVars, balVars>>

\* destruir_cache(cache_global): every node, its chave and dados, and the
\* cache are freed
MainDestruirCache ==
    /\ mpc = "cache"
    /\ cache' = criar_cache
    /\ mem' = [a \in Addr |-> FreeBlock]
    /\ writer' = [k \in Keys |-> NoWriter]
    /\ cache_destruido' = TRUE
    /\ mpc' = "bal"
    /\ UNCHANGED <<servidor_rodando, spc, apos_sinal, buffer, dados_cache, resposta,
                   seqVars, poolVars, logVars,
                   plugVars, lockVars, histVars, extVars, balVars, balVars>>

\* destruir_balanceador(balanceador_global)
MainDestruirBalanceador ==
    /\ mpc = "bal"
    /\ mpc' = "log"
    /\ UNCHANGED <<servidor_rodando, spc, cache_destruido, apos_sinal,
                   cacheVars, seqVars, poolVars, reqVars, logVars,
                   plugVars, lockVars, histVars, extVars, balVars, balVars>>

\* destruir_sistema_log: rodando = 0; SetEvent(cond_log)
MainLogStop ==
    /\ mpc = "log"
    /\ rodando' = FALSE
    /\ cond_log' = TRUE
    /\ aceitos_parada' = aceitos
    /\ mpc' = "join"
    /\ UNCHANGED <<servidor_rodando, spc, cache_destruido, apos_sinal,
                   buffer_log, indice_escrita, indice_leitura, mutex_log, lpc, ppc,
                   sink, emitidos, aceitos, descartados, log_destruido,
                   cacheVars, seqVars, poolVars, reqVars,
                   plugVars, lockVars, histVars, extVars, balVars, balVars>>

\* thread_logger_func returns, rodando being cleared and the buffer drained
\* (its steps are those of SpecLog)
LoggerRetorna ==
    /\ Vivo
    /\ ~rodando
    /\ lpc # "exit"
    /\ lpc' = "exit"
    /\ UNCHANGED <<servidor_rodando, spc, mpc, cache_destruido, apos_sinal,
                   buffer_log, indice_escrita, indice_leitura, rodando, cond_log,
                   mutex_log, ppc, sink, emitidos, aceitos, descartados, fimVars,
                   cacheVars, seqVars, poolVars, reqVars,
                   plugVars, lockVars, histVars, extVars, balVars, balVars>>

\* destruir_sistema_log: the wait for the logger thread returns; fclose, free
MainLogJoin ==
    /\ mpc = "join"
    /\ lpc = "exit"
    /\ log_destruido' = TRUE
    /\ buffer_log' = [i \in Slots |-> NULL]
    /\ mpc' = "sem"
    /\ UNCHANGED <<servidor_rodando, spc, cache_destruido, apos_sinal,
                   indice_escrita, indice_leitura, rodando, cond_log, mutex_log,
                   lpc, ppc, sink, emitidos, aceitos, descartados, aceitos_parada,
                   cacheVars, seqVars, poolVars, reqVars,
                   plugVars, lockVars, histVars, extVars, balVars, balVars>>

\* CloseHandle(semaforo_pool); return 0: the process ends and with it every
\* thread that is still running
MainFim ==
    /\ mpc = "sem"
    /\ mpc' = "done"
    /\ UNCHANGED <<servidor_rodando, spc, cache_destruido, apos_sinal,
                   cacheVars, seqVars, poolVars, reqVars, logVars,
                   plugVars, lockVars, histVars, extVars, balVars, balVars>>

\* a handler inside processar_requisicao_distribuida or escrever_log while
\* the cache or the log it uses is freed: besides returning as if nothing
\* had happened, the call can fault or hang
HandlerFalha(h) ==
    /\ Vivo
    /\ \/ pc[h] = "proc" /\ (cache_destruido \/ log_destruido)
       \/ pc[h] = "logev" /\ log_destruido
    /\ pc' = [pc EXCEPT ![h] = "falha"]
    /\ UNCHANGED <<semaforo_pool, bytes, held, shutVars,
                   cacheVars, seqVars, reqVars, logVars,
                   plugVars, lockVars, histVars, extVars, balVars, balVars>>

\* the steps of the handler h
PassoHandler(h) ==
    \/ Acquire(h)
    \/ \E k \in Keys : RecvData(h, k)
    \/ \E r \in {"empty", "error"} : RecvFail(h, r)
    \/ Process(h)
    \/ LogEvent(h)
    \/ Release(h)

\* the steps of main
PassoMain ==
    \/ MainWait
    \/ MainDestruirCache
    \/ MainDestruirBalanceador
    \/ MainLogStop
    \/ MainLogJoin
    \/ MainFim

NextShut ==
    \/ Sinal
    \/ ServTest
    \/ \E h \in Handlers : ServAccept(h)
    \/ ServAcceptErro
    \/ \E h \in Handlers : Vivo /\ PassoHandler(h)
    \/ \E h \in Handlers : HandlerFalha(h)
    \/ LoggerRetorna
    \/ PassoMain

SpecShut == Init /\ [][NextShut]_vars

\* the handlers that were started and have not returned
EmCurso == {h \in Handlers : pc[h] \notin {"idle", "done"}}

\* C12 (as claimed): the cache is released and the log stopped and closed
\* only after every handler that was started has returned, and no handler is
\* inside processar_requisicao_distribuida (cache_get, cache_put,
\* escrever_log) or the escrever_log of a failed read on a cache or log that
\* is destroyed.
C12_ShutdownOrdering ==
    /\ (cache_destruido \/ ~rodando \/ log_destruido) => EmCurso = {}
    /\ \A h \in Handlers :
          /\ pc[h] = "proc" => ~(cache_destruido \/ log_destruido)
          /\ pc[h] = "logev" => ~log_destruido

\* C13 (as claimed): once the console handler has cleared servidor_rodando,
\* no connection that arrives is handed to a newly created handler.
C13_NoAdmissionAfterSignal == apos_sinal = {}

\* the scheduling of the threads: servidor_socket, main, the logger and the
\* handlers take the steps they are able to take.  Nothing obliges a client
\* to connect or to send, nor the user to press Ctrl-C.
Justica ==
    /\ WF_vars(ServTest)
    /\ WF_vars(PassoMain)
    /\ WF_vars(LoggerRetorna)
    /\ \A h \in Handlers :
          WF_vars(Vivo /\ (Acquire(h) \/ Process(h) \/ LogEvent(h) \/ Release(h)))

SpecShutFair == SpecShut /\ Justica

\* C14 (as claimed): shutdown always completes.  Once servidor_rodando is
\* cleared, main eventually returns, whatever the clients do, also when no
\* further connection arrives.
C14_ShutdownCompletes == (~servidor_rodando) ~> (mpc = "done")

----------------------------------------------------------------------------
(* SpecLock: the critical sections.  Every function of the program is seen  *)
(* as the sequence of EnterCriticalSection / LeaveCriticalSection calls it   *)
(* makes, in program order; main runs its initialisation (the plugin loader  *)
(* included) beside the logger thread, then starts the server, and the       *)
(* handlers run beside the logger.                                           *)

Acq(l) == <<"acq", l>>
Rel(l) == <<"rel", l>>

\* escrever_log: EnterCriticalSection(&log->mutex_log) ... Leave
EscreverLogOps == <<Acq("log"), Rel("log")>>

\* (mutation) a cache call that returns without LeaveCriticalSection
CacheOps_SemLeave == <<Acq("cache")>>

\* cache_get, cache_put: EnterCriticalSection(&cache->mutex) ... Leave on
\* every return
CacheOps == <<Acq("cache"), Rel("cache")>>

\* executar_plugins: the registry's mutex is held across the process calls
ExecutarPluginsOps == <<Acq("plugins"), <<"ext", "plugins">>, Rel("plugins")>>

\* registrar_plugin: inside the registry's mutex the plugin is stored and
\* escrever_log is called
RegistrarPluginOps ==
    <<Acq("plugins"), <<"reg", "plugins">>>> \o EscreverLogOps \o <<Rel("plugins")>>

\* adicionar_servidor
AdicionarServidorOps == <<Acq("bal"), Rel("bal")>>

\* main up to CreateThread(servidor_socket): with a plugin found in
\* ./plugins ("main_com") or without one ("main_sem")
MainOps(comPlugin) ==
    EscreverLogOps \o EscreverLogOps \o AdicionarServidorOps \o AdicionarServidorOps
    \o EscreverLogOps
    \o (IF comPlugin THEN RegistrarPluginOps ELSE EscreverLogOps)
    \o EscreverLogOps \o EscreverLogOps \o CacheOps \o CacheOps

\* if (sistema_plugins_global->total_plugins > 0) executar_plugins(buffer)
PluginsOps(reg) == IF reg # <<>> THEN ExecutarPluginsOps ELSE <<>>

\* the lock operations of the function named
Programa(nome, reg) ==
    CASE nome = "main_sem" -> MainOps(FALSE)
      [] nome = "main_com" -> MainOps(TRUE)
      [] nome = "hit" -> EscreverLogOps \o CacheOps \o EscreverLogOps \o PluginsOps(reg)
      [] nome = "miss" -> EscreverLogOps \o CacheOps \o CacheOps \o EscreverLogOps
                          \o PluginsOps(reg)
      [] nome = "falha" -> EscreverLogOps
      [] nome = "logger" -> EscreverLogOps
      [] OTHER -> <<>>

\* the operation thread t is at; <<"fim", "">> past the last one
OpDe(t) ==
    LET pr == Programa(tprog[t], plugins)
    IN  IF tpc[t] < Len(pr) THEN pr[tpc[t] + 1] ELSE <<"fim", "">>

Ativo(t) == tprog[t] \notin {"none", "servindo"}

\* main begins its initialisation; a handler, created once the server
\* runs, has its token and recv returned: the payload hits, misses, or the
\* read failed
Comeca(t, nome) ==
    /\ tprog[t] = "none"
    /\ \/ t = MainThread /\ nome \in {"main_sem", "main_com"}
       \/ t \in Workers /\ tprog[MainThread] = "servindo" /\ nome \in {"hit", "miss", "falha"}
    /\ tprog' = [tprog EXCEPT ![t] = nome]
    /\ tpc' = [tpc EXCEPT ![t] = 0]
    /\ UNCHANGED <<dono, plugins, shutVars, histVars, extVars, balVars, cacheVars, seqVars, poolVars, reqVars, logVars>>

\* EnterCriticalSection returns: nobody, or the thread itself, is inside
Adquire(t) ==
    /\ Ativo(t)
    /\ OpDe(t)[1] = "acq"
    /\ dono[OpDe(t)[2]] \in {SemDono, t}
    /\ dono' = [dono EXCEPT ![OpDe(t)[2]] = t]
    /\ tpc' = [tpc EXCEPT ![t] = @ + 1]
    /\ UNCHANGED <<tprog, plugins, shutVars, histVars, extVars, balVars, cacheVars, seqVars, poolVars, reqVars, logVars>>

\* LeaveCriticalSection
Libera(t) ==
    /\ Ativo(t)
    /\ OpDe(t)[1] = "rel"
    /\ dono' = [dono EXCEPT ![OpDe(t)[2]] = SemDono]
    /\ tpc' = [tpc EXCEPT ![t] = @ + 1]
    /\ UNCHANGED <<tprog, plugins, shutVars, histVars, extVars, balVars, cacheVars, seqVars, poolVars, reqVars, logVars>>

\* the loop of executar_plugins: every p->process(dados, NULL) returned
Extensao(t) ==
    /\ Ativo(t)
    /\ OpDe(t)[1] = "ext"
    /\ tpc' = [tpc EXCEPT ![t] = @ + 1]
    /\ UNCHANGED <<dono, tprog, plugins, shutVars, histVars, extVars, balVars, cacheVars, seqVars, poolVars, reqVars, logVars>>

\* registrar_plugin: plugins[total_plugins] = *plugin; total_plugins++
Regista(t) ==
    /\ Ativo(t)
    /\ OpDe(t)[1] = "reg"
    /\ plugins' = Append(plugins, [nome |-> 1, init |-> TRUE, process |-> TRUE])
    /\ tpc' = [tpc EXCEPT ![t] = @ + 1]
    /\ UNCHANGED <<dono, tprog, shutVars, histVars, extVars, balVars, cacheVars, seqVars, poolVars, reqVars, logVars>>

\* the function returns: main starts the server and waits for it, a handler
\* thread ends, the logger goes round its loop
Termina(t) ==
    /\ Ativo(t)
    /\ OpDe(t)[1] = "fim"
    /\ tprog' = [tprog EXCEPT ![t] = IF t = MainThread THEN "servindo"
                                     ELSE IF t = LoggerLock THEN "logger" ELSE "none"]
    /\ tpc' = [tpc EXCEPT ![t] = 0]
    /\ UNCHANGED <<dono, plugins, shutVars, histVars, extVars, balVars, cacheVars, seqVars, poolVars, reqVars, logVars>>

\* a step of a thread inside a function
PassoLock(t) == Adquire(t) \/ Libera(t) \/ Extensao(t) \/ Regista(t) \/ Termina(t)

NextLock ==
    \/ \E t \in Threads, nome \in {"main_sem", "main_com", "hit", "miss", "falha"} :
          Comeca(t, nome)
    \/ \E t \in Threads : Adquire(t)
    \/ \E t \in Threads : Libera(t)
    \/ \E t \in Threads : Extensao(t)
    \/ \E t \in Threads : Regista(t)
    \/ \E t \in Threads : Termina(t)

\* every thread goes on running: it returns from an extension call, leaves
\* a critical section, and enters one that is free again and again
SpecLock == Init /\ [][NextLock]_vars /\ \A t \in Threads : SF_vars(PassoLock(t))

\* thread t is at an EnterCriticalSection that another thread is inside
Esperando(t) ==
    /\ Ativo(t)
    /\ OpDe(t)[1] = "acq"
    /\ dono[OpDe(t)[2]] \notin {SemDono, t}

\* a set of threads each waiting for a critical section that a thread of
\* the set is inside
Ciclo(S) == S # {} /\ \A t \in S : Esperando(t) /\ dono[OpDe(t)[2]] \in S

----------------------------------------------------------------------------
(* SpecPlug: the plugins.  main runs carregar_plugins over the entries of    *)
(* ./plugins before it creates servidor_socket; afterwards the handlers that *)
(* hold a token run processar_requisicao_distribuida, whose plugin step is   *)
(* executar_plugins.  The cache step is the one of SpecReq and is seen here  *)
(* as one event.  A plugin_process is a void function: whether it did its    *)
(* work or failed is known to the plugin alone (field ok of the event).      *)
(* In SpecPlug every call does its work; in SpecPlugFalha a call may fail.   *)

notExt == <<cacheVars, seqVars, poolVars, reqVars, logVars, shutVars, lockVars, histVars, balVars>>

Evento(e, n, d, o) == [ev |-> e, nome |-> n, dados |-> d, ok |-> o]

\* FindFirstFileA returned INVALID_HANDLE_VALUE: log and return
CarregarSemDiretorio ==
    /\ cpc = "find" /\ cpos = 1
    /\ cpc' = "fim"
    /\ UNCHANGED <<cpos, plugin, inits, plugins, epc, edados, ei, traco, mutex_plugins>>
    /\ UNCHANGED notExt

\* FindNextFileA: the next entry, or FindClose and return
Avanca ==
    /\ cpos' = cpos + 1
    /\ cpc' = IF cpos + 1 > NumFiles THEN "fim" ELSE "find"

\* the entry is a directory, or LoadLibraryA failed (logged): next entry
CarregarIgnora ==
    /\ cpc = "find" /\ cpos <= NumFiles
    /\ Avanca
    /\ UNCHANGED <<plugin, inits, plugins, epc, edados, ei, traco, mutex_plugins>>
    /\ UNCHANGED notExt

\* LoadLibraryA succeeded; GetProcAddress resolved plugin_init (i) and
\* plugin_process (p) or not.  With both: plugin.init(NULL), and
\* registrar_plugin is next.  Otherwise FreeLibrary and the next entry
\* (the local plugin ends with the block).
CarregarArquivo(i, p) ==
    /\ cpc = "find" /\ cpos <= NumFiles
    /\ IF i /\ p
         THEN /\ plugin' = [nome |-> cpos, init |-> i, process |-> p]
              /\ inits' = [inits EXCEPT ![cpos] = @ + 1]
              /\ cpc' = "reg"
              /\ UNCHANGED cpos
         ELSE /\ plugin' = SemPlugin
              /\ Avanca
              /\ UNCHANGED inits
    /\ UNCHANGED <<plugins, epc, edados, ei, traco, mutex_plugins>>
    /\ UNCHANGED notExt

\* (mutation) registrar_plugin without the test of total_plugins
RegistrarPlugin_SemLimite ==
    /\ cpc = "reg"
    /\ plugins' = Append(plugins, plugin)
    /\ Avanca
    /\ plugin' = SemPlugin
    /\ UNCHANGED <<inits, epc, edados, ei, traco, mutex_plugins>>
    /\ UNCHANGED notExt

\* registrar_plugin(&plugin): under the mutex, copy *plugin to
\* plugins[total_plugins] and count it if total_plugins < MAX_PLUGINS
RegistrarPlugin ==
    /\ cpc = "reg" /\ mutex_plugins = SemDono
    /\ plugins' = IF Len(plugins) < MaxPlugins THEN Append(plugins, plugin) ELSE plugins
    /\ Avanca
    /\ plugin' = SemPlugin
    /\ UNCHANGED <<inits, epc, edados, ei, traco, mutex_plugins>>
    /\ UNCHANGED notExt

\* a handler's recv returned payload d: processar_requisicao_distribuida
\* starts with escrever_log("Processando requisicao de ...").  The server
\* thread exists only after carregar_plugins returned.
PedidoInicio(w, d) ==
    /\ cpc = "fim" /\ epc[w] \in {"idle", "feito"}
    /\ epc' = [epc EXCEPT ![w] = "cache"]
    /\ edados' = [edados EXCEPT ![w] = d]
    /\ ei' = [ei EXCEPT ![w] = 0]
    /\ traco' = [traco EXCEPT ![w] = <<Evento("log", 0, d, TRUE)>>]
    /\ UNCHANGED <<cpc, cpos, plugin, inits, plugins, mutex_plugins>>
    /\ UNCHANGED notExt

\* cache_get, then the response is built (and cache_put on a miss), then
\* escrever_log("Cache HIT" / "Cache MISS")
PedidoCache(w) ==
    /\ epc[w] = "cache"
    /\ epc' = [epc EXCEPT ![w] = "teste"]
    /\ traco' = [traco EXCEPT ![w] = @ \o <<Evento("cache", 0, edados[w], TRUE),
                                             Evento("log", 0, edados[w], TRUE)>>]
    /\ UNCHANGED <<cpc, cpos, plugin, inits, plugins, edados, ei, mutex_plugins>>
    /\ UNCHANGED notExt

\* if (sistema_plugins_global && sistema_plugins_global->total_plugins > 0)
PedidoTeste(w) ==
    /\ epc[w] = "teste"
    /\ epc' = [epc EXCEPT ![w] = IF Len(plugins) > 0 THEN "enter" ELSE "send"]
    /\ UNCHANGED <<cpc, cpos, plugin, inits, plugins, edados, ei, traco, mutex_plugins>>
    /\ UNCHANGED notExt

\* (mutation) executar_plugins entered without waiting for the mutex
ExecEntra_SemMutex(w) ==
    /\ epc[w] = "enter"
    /\ mutex_plugins' = w
    /\ ei' = [ei EXCEPT ![w] = 1]
    /\ epc' = [epc EXCEPT ![w] = "exec"]
    /\ UNCHANGED <<cpc, cpos, plugin, inits, plugins, edados, traco>>
    /\ UNCHANGED notExt

\* (mutation) executar_plugins with its loop starting at the second entry
ExecEntra_DoSegundo(w) ==
    /\ epc[w] = "enter" /\ mutex_plugins = SemDono
    /\ mutex_plugins' = w
    /\ ei' = [ei EXCEPT ![w] = 2]
    /\ epc' = [epc EXCEPT ![w] = "exec"]
    /\ UNCHANGED <<cpc, cpos, plugin, inits, plugins, edados, traco>>
    /\ UNCHANGED notExt

\* executar_plugins(buffer): EnterCriticalSection(&mutex); i = 0
ExecEntra(w) ==
    /\ epc[w] = "enter" /\ mutex_plugins = SemDono
    /\ mutex_plugins' = w
    /\ ei' = [ei EXCEPT ![w] = 1]
    /\ epc' = [epc EXCEPT ![w] = "exec"]
    /\ UNCHANGED <<cpc, cpos, plugin, inits, plugins, edados, traco>>
    /\ UNCHANGED notExt

\* one turn of the loop: if (p->process) p->process(dados, NULL); i++.
\* The call returns nothing: o, whether the plugin did its work, reaches
\* no variable of the server.
ExecChama(w, o) ==
    /\ epc[w] = "exec" /\ ei[w] <= Len(plugins)
    /\ traco' = [traco EXCEPT ![w] =
                    IF plugins[ei[w]].process
                      THEN Append(@, Evento("process", plugins[ei[w]].nome, edados[w], o))
                      ELSE @]
    /\ ei' = [ei EXCEPT ![w] = @ + 1]
    /\ UNCHANGED <<cpc, cpos, plugin, inits, plugins, epc, edados, mutex_plugins>>
    /\ UNCHANGED notExt

\* i == total_plugins: LeaveCriticalSection(&mutex), return
ExecSai(w) ==
    /\ epc[w] = "exec" /\ ei[w] > Len(plugins)
    /\ mutex_plugins' = SemDono
    /\ epc' = [epc EXCEPT ![w] = "send"]
    /\ UNCHANGED <<cpc, cpos, plugin, inits, plugins, edados, ei, traco>>
    /\ UNCHANGED notExt

\* send(conexao->socket_cliente, resposta, ...), return
PedidoSend(w) ==
    /\ epc[w] = "send"
    /\ epc' = [epc EXCEPT ![w] = "feito"]
    /\ traco' = [traco EXCEPT ![w] = Append(@, Evento("send", 0, edados[w], TRUE))]
    /\ UNCHANGED <<cpc, cpos, plugin, inits, plugins, edados, ei, mutex_plugins>>
    /\ UNCHANGED notExt

\* the steps of the loader and of the requests; O is what a call of
\* plugin_process can come to (TRUE: it did its work, FALSE: it failed)
PassoPlug(O) ==
    \/ CarregarSemDiretorio
    \/ CarregarIgnora
    \/ \E i, p \in BOOLEAN : CarregarArquivo(i, p)
    \/ RegistrarPlugin
    \/ \E w \in Workers, d \in Pedidos : PedidoInicio(w, d)
    \/ \E w \in Workers : PedidoCache(w)
    \/ \E w \in Workers : PedidoTeste(w)
    \/ \E w \in Workers : ExecEntra(w)
    \/ \E w \in Workers, o \in O : ExecChama(w, o)
    \/ \E w \in Workers : ExecSai(w)
    \/ \E w \in Workers : PedidoSend(w)

\* every plugin_process does its work
NextPlug == PassoPlug({TRUE})

SpecPlug == Init /\ [][NextPlug]_vars

\* a plugin_process may fail
NextPlugFalha == PassoPlug(BOOLEAN)

SpecPlugFalha == Init /\ [][NextPlugFalha]_vars

\* the events of kind e in trace t, in order
RECURSIVE Filtra(_, _)
Filtra(t, e) ==
    IF t = <<>> THEN <<>>
    ELSE IF Head(t).ev = e THEN <<Head(t)>> \o Filtra(Tail(t), e)
    ELSE Filtra(Tail(t), e)

\* position of the first event of kind e in trace t, 0 if there is none
Primeiro(t, e) ==
    IF \E j \in 1..Len(t) : t[j].ev = e
      THEN CHOOSE j \in 1..Len(t) : t[j].ev = e /\ \A k \in 1..(j - 1) : t[k].ev # e
      ELSE 0

----------------------------------------------------------------------------
(* SpecBal: the balancer's table.  main fills it with adicionar_servidor     *)
(* before carregar_plugins and before the server thread exists (main calls   *)
(* it twice; here any number of times, so that the full table is reached).   *)
(* The loader and the requests are those of SpecPlug, with one handler.      *)

\* (mutation) adicionar_servidor without the test of servidores_ativos
adicionar_servidor_SemLimite(porta) ==
    /\ cpc = "find" /\ cpos = 1
    /\ servidores' = [i \in SlotsBal |->
                         IF i = servidores_ativos THEN porta ELSE servidores[i]]
    /\ health_check' = [i \in SlotsBal |->
                         IF i = servidores_ativos THEN 1 ELSE health_check[i]]
    /\ servidores_ativos' = servidores_ativos + 1
    /\ UNCHANGED <<atual, recusado>>
    /\ UNCHANGED <<cacheVars, seqVars, poolVars, reqVars, logVars, shutVars,
                   plugVars, lockVars, histVars, extVars>>

\* adicionar_servidor(bal, ip, porta), under mutex_balanceamento
adicionar_servidor(porta) ==
    /\ cpc = "find" /\ cpos = 1
    /\ IF servidores_ativos < MaxServidores
         THEN /\ servidores' = [servidores EXCEPT ![servidores_ativos] = porta]
              /\ health_check' = [health_check EXCEPT ![servidores_ativos] = 1]
              /\ servidores_ativos' = servidores_ativos + 1
              /\ UNCHANGED recusado
         ELSE /\ recusado' = TRUE
              /\ UNCHANGED <<servidores, health_check, servidores_ativos>>
    /\ UNCHANGED atual
    /\ UNCHANGED <<cacheVars, seqVars, poolVars, reqVars, logVars, shutVars,
                   plugVars, lockVars, histVars, extVars>>

NextBal ==
    \/ \E porta \in Portas : adicionar_servidor(porta)
    \/ CarregarSemDiretorio
    \/ CarregarIgnora
    \/ \E i, p \in BOOLEAN : CarregarArquivo(i, p)
    \/ RegistrarPlugin
    \/ \E d \in Pedidos : PedidoInicio(Unico, d)
    \/ PedidoCache(Unico)
    \/ PedidoTeste(Unico)
    \/ ExecEntra(Unico)
    \/ ExecChama(Unico, TRUE)
    \/ ExecSai(Unico)
    \/ PedidoSend(Unico)

SpecBal == Init /\ [][NextBal]_vars

----------------------------------------------------------------------------
(* Properties of the sequential cache (SpecCache)                          *)

\* C3: LRU invariant.  After any sequence of cache_put / cache_get the keys
\* of the list, head to tail, are the min(C, touched) most recently touched
\* keys in decreasing recency (a touch is a put, or a get that hit); the
\* links are those of a doubly linked list of tamanho nodes, tamanho never
\* exceeds the capacity, and C+1 puts of distinct keys k1..k_{C+1} with no
\* other call evict exactly k1.
C3_LRUInvariant ==
    /\ LinksOk(cache)
    /\ ListKeys(cache) = Top(touch)
    /\ cache.tamanho <= CacheCap
    /\ (Len(run) = CacheCap + 1 => evicted = {run[1]})
    /\ (Len(run) \in 1..CacheCap => evicted = {})

\* C3 witness: C+1 distinct keys were inserted in a row and the first one is
\* the only key gone
C3_Witness ==
    /\ Len(run) = CacheCap + 1
    /\ evicted = {run[1]}
    /\ ResidentKeys(cache) = {run[i] : i \in 2..(CacheCap + 1)}

\* C4: round trip.  A cache_get(k) that directly follows cache_put(k, v)
\* returns v, whether k was absent or held another value before the put;
\* after a put the key has exactly one node, holding v, and a put on a
\* resident key leaves the size unchanged.
C4_RoundTrip ==
    /\ (last.op = "get" /\ last.rt # NoVal) => last.ret = last.rt
    /\ last.op = "put" =>
          /\ ValueOf(cache, mem, last.key) = last.val
          /\ Cardinality({n \in Nodes : cache.chave[n] = last.key}) = 1
          /\ (last.old # NoVal => cache.tamanho = last.size0)

\* C4 witness: a get returned the value of the put just before it, which had
\* overwritten a different value
C4_Witness ==
    /\ last.op = "get"
    /\ last.rt # NoVal
    /\ last.ret = last.rt
    /\ last.rtold # NoVal
    /\ last.rtold # last.rt

\* C5: a cache_get on a key that is not resident returns "not found" and
\* changes nothing of the cache: list, links, size, keys and values.
C5_GetMissFrame ==
    [][(last'.op = "get" /\ ~InSeq(ListKeys(cache), last'.key))
         => (last'.ret = NoVal /\ cache' = cache /\ mem' = mem)]_vars

\* C5 witness: a get missed on a cache that holds entries
C5_Witness ==
    /\ last.op = "get"
    /\ ~InSeq(ListKeys(cache), last.key)
    /\ last.ret = NoVal
    /\ cache.tamanho = CacheCap

----------------------------------------------------------------------------
(* Properties of the handler threads (SpecPool)                            *)

\* C1: worker-pool bound.  In every reachable state at most PoolSize handlers
\* are between acquiring the token and releasing it, and a handler passes
\* the acquisition only in a state where fewer than PoolSize handlers hold
\* one: with 2 tokens and 3 handlers the third passes only after a release.
C1_PoolBound ==
    /\ [](Cardinality(Holders) <= PoolSize)
    /\ [][\A h \in Handlers :
            (pc[h] = "wait" /\ pc'[h] = "recv") => Cardinality(Holders) < PoolSize]_vars

\* C1 witness: PoolSize handlers hold a token and another one, started as
\* well, is still waiting for the semaphore
C1_Witness ==
    /\ Cardinality(Holders) = PoolSize
    /\ \E h \in Handlers : pc[h] = "wait"

\* C2: every handler that acquired a token releases it exactly once before
\* it terminates, whatever recv returned: a handler holds one token from the
\* acquisition to the release and none before or after, the free tokens and
\* the held ones add up to the pool size, and the count never exceeds it.
C2_TokenReleased ==
    /\ \A h \in Handlers : held[h] = (IF h \in Holders THEN 1 ELSE 0)
    /\ semaforo_pool + Sum(held, Handlers) = PoolSize
    /\ semaforo_pool \in 0..PoolSize

\* C2 witness: three handlers have terminated, one per outcome of the read,
\* and every token is back
C2_Witness ==
    /\ \A r \in {"data", "empty", "error"} : \E h \in Handlers : pc[h] = "done" /\ bytes[h] = r
    /\ semaforo_pool = PoolSize

Existentes == {h \in Handlers : pc[h] \in {"wait", "recv", "proc", "logev", "release"}}

\* C22: the handler threads that exist at the same time, counting those
\* still waiting for a token, are never more than MAX_THREADS (PoolSize).
C22_HandlerThreadBound == Cardinality(Existentes) <= PoolSize

----------------------------------------------------------------------------
(* Properties of the concurrent request pipeline (SpecReq)                 *)

\* the nodes that hold key k
NodesOf(c, k) == {n \in Nodes : c.chave[n] = k}

\* C6: whatever handlers run cache_put on the same key concurrently (also
\* when all of them missed on it first and then all insert it), the cache
\* holds at most one node per key, the resident key's data is the block the
\* last cache_put on it stored, the size is at most the capacity and the
\* links are those of a list without duplicates.
C6_ConcurrentPut ==
    /\ LinksOk(cache)
    /\ NoDuplicateKeys(cache)
    /\ cache.tamanho <= CacheCap
    /\ \A k \in Keys :
          /\ Cardinality(NodesOf(cache, k)) <= 1
          /\ \A n \in NodesOf(cache, k) :
                /\ mem[cache.dados[n]].by = writer[k]
                /\ mem[cache.dados[n]].val \in PutValues(k)

\* C6 witness: two handlers missed on the same key and both have run their
\* cache_put on it; the key has one node, written by one of them
C6_Witness ==
    \E h1, h2 \in Workers :
        /\ h1 # h2
        /\ pc[h1] = "send" /\ pc[h2] = "send"
        /\ buffer[h1] = buffer[h2]
        /\ resposta[h1].tipo = "computed" /\ resposta[h2].tipo = "computed"
        /\ Cardinality(NodesOf(cache, buffer[h1])) = 1
        /\ writer[buffer[h1]] \in {h1, h2}

\* C7 (as claimed): whenever a handler is about to read the value cache_get
\* returned to it, the block is still allocated and holds a value that a
\* cache_put stored under the handler's key.
C7_NoReleasedEntry ==
    \A h \in Workers :
        pc[h] = "hit" =>
            /\ mem[dados_cache[h]].val # NoVal
            /\ mem[dados_cache[h]].val \in PutValues(buffer[h])

----------------------------------------------------------------------------
(* Properties of the log pipeline (SpecLog)                                *)

\* C8: log ordering.  The records written to the sink are the records
\* escrever_log accepted, in the order of acceptance, each once: the sink
\* holds the first records accepted and the buffer, from indice_leitura to
\* indice_escrita, the rest of them in order; no other slot holds a record.
\* (Until destruir_sistema_log frees the buffer: from then on the sink stays
\* the first records accepted, in order.)
C8_LogOrder ==
    /\ sink = Range(1, Len(sink))
    /\ Len(sink) <= aceitos
    /\ ~log_destruido =>
          /\ Pendentes(indice_leitura, indice_escrita, LogSlots) = Range(Len(sink) + 1, aceitos)
          /\ Cardinality({i \in Slots : buffer_log[i] # NULL}) = aceitos - Len(sink)

\* C8 witness: the buffer has wrapped around, a record was dropped, and more
\* records than the buffer has slots are in the sink, in order
C8_Witness ==
    /\ Len(sink) > LogSlots
    /\ descartados > 0
    /\ sink = Range(1, Len(sink))

\* C9 (as claimed): when K + 1 calls of escrever_log have completed on a
\* buffer of K slots and the logger has written nothing, K records were
\* accepted and exactly one was dropped.
C9_DropsExactlyOne ==
    (/\ sink = <<>>
     /\ emitidos = LogSlots + 1
     /\ \A p \in Producers : ppc[p] = "idle")
        => (aceitos = LogSlots /\ descartados = 1)

\* C10 (as claimed): a caller of escrever_log never waits on the logger.  A
\* call that finds the buffer full drops its record and leaves the buffer and
\* both indices unchanged, and no caller is at
\* EnterCriticalSection(&log->mutex_log) while the logger is inside the
\* critical section with records still to write and flush.
C10_NeverWaitsOnLogger ==
    /\ [][\A p \in Producers :
            (ppc[p] = "lock" /\ ppc'[p] = "idle" /\ descartados' # descartados)
                => UNCHANGED <<buffer_log, indice_escrita, indice_leitura>>]_vars
    /\ [](~(\E p \in Producers :
               /\ ppc[p] = "lock"
               /\ mutex_log = LoggerThread
               /\ lpc = "drain"
               /\ indice_leitura # indice_escrita))

\* C11: no accepted record is lost at shutdown.  Once destruir_sistema_log
\* has closed the sink, every record that escrever_log had accepted when the
\* stop flag was set is in the sink; the logger returns only with the flag
\* cleared and the buffer empty.
C11_NoRecordLost ==
    /\ log_destruido => (aceitos_parada # NoVal /\ Len(sink) >= aceitos_parada)
    /\ lpc = "exit" => (~rodando /\ Len(sink) >= aceitos_parada)

\* C11 witness: the stop flag was set after two records or more were
\* accepted, none was dropped, and the sink is closed with all of them written
C11_Witness ==
    /\ log_destruido
    /\ aceitos_parada >= 2
    /\ Len(sink) >= aceitos_parada
    /\ descartados = 0

\* no caller of escrever_log is left and none will come
ProdutoresParados == emitidos = MaxEmit /\ \A p \in Producers : ppc[p] # "lock"

\* C25: termination of the logger.  Once destruir_sistema_log has cleared
\* rodando and no caller emits any more, thread_logger_func eventually
\* returns and the wait for it in destruir_sistema_log ends; at the moment
\* it returns the buffer is empty (indice_leitura = indice_escrita); while
\* rodando is set it never returns.
C25_LoggerTerminates ==
    /\ (~rodando /\ ProdutoresParados) ~> (lpc = "exit")
    /\ (~rodando /\ ProdutoresParados) ~> log_destruido
    /\ [][(lpc # "exit" /\ lpc' = "exit") =>
              (~rodando /\ indice_leitura = indice_escrita)]_vars
    /\ [](rodando => lpc # "exit")

\* C25 witness: the logger has returned, after writing records that were
\* accepted after rodando was cleared, with the buffer empty and no caller
\* left
C25_Witness ==
    /\ lpc = "exit" /\ ~rodando /\ ~log_destruido
    /\ ProdutoresParados
    /\ indice_leitura = indice_escrita
    /\ aceitos_parada # NoVal /\ Len(sink) > aceitos_parada

----------------------------------------------------------------------------
(* Properties of requests served in sequence (SpecE2E)                     *)

\* C16: end to end, no plugin registered.  A request whose payload is not a
\* resident key misses, its response is the computed one and from then on
\* the payload is a resident key holding that response; a request whose
\* payload is resident (a second request with the same payload) hits, its
\* response is built from the stored value, and none of its steps changes
\* the cache size.
C16_EndToEnd ==
    /\ [](plugins = <<>>)
    /\ [](LET k == buffer[Unico]
          IN  /\ pc[Unico] = "miss" => k \notin ResidentKeys(cache)
              /\ pc[Unico] = "hit" =>
                    /\ k \in ResidentKeys(cache)
                    /\ Deref(mem, dados_cache[Unico]) = ValueOf(cache, mem, k)
              /\ (pc[Unico] = "send" /\ resposta[Unico].tipo = "computed") =>
                    /\ k \in ResidentKeys(cache)
                    /\ ValueOf(cache, mem, k) = Resposta(k)
                    /\ resposta[Unico].val = Resposta(k)
              /\ (pc[Unico] = "send" /\ resposta[Unico].tipo = "cache") =>
                    /\ k \in ResidentKeys(cache)
                    /\ resposta[Unico].val = ValueOf(cache, mem, k))
    /\ [][LET k == buffer[Unico]
          IN  /\ (pc[Unico] = "proc" /\ k \notin ResidentKeys(cache)) => pc'[Unico] = "miss"
              /\ (pc[Unico] = "proc" /\ k \in ResidentKeys(cache)) =>
                    (pc'[Unico] = "hit" /\ cache'.tamanho = cache.tamanho)
              /\ pc[Unico] = "hit" =>
                    (resposta'[Unico].tipo = "cache" /\ UNCHANGED cacheVars)
              /\ pc[Unico] = "miss" =>
                    (resposta'[Unico].tipo = "computed" /\ k \in ResidentKeys(cache'))
              /\ pc[Unico] = "send" => UNCHANGED cacheVars]_vars

\* C16 witness: the response to a request is served from the cache and is
\* the response an earlier request with the same payload computed and stored
C16_Witness ==
    /\ pc[Unico] = "send"
    /\ resposta[Unico].tipo = "cache"
    /\ buffer[Unico] # Teste1
    /\ resposta[Unico].val = Resposta(buffer[Unico])
    /\ plugins = <<>>

----------------------------------------------------------------------------
(* Properties of the critical sections (SpecLock)                          *)

C23_NoLockHeldWhileAcquiring ==
    \A t \in Threads, l \in Locks :
        (dono[l] = t /\ Ativo(t) /\ OpDe(t)[1] = "acq") => OpDe(t)[2] = l

----------------------------------------------------------------------------
(* Properties of the plugins (SpecPlug)                                    *)

\* the calls of plugin_process in trace t are, in order, one per entry of
\* the registry, each with payload d
ChamadasEmOrdem(t, d) ==
    LET pr == Filtra(t, "process")
    IN  /\ Len(pr) = Len(plugins)
        /\ \A i \in 1..Len(pr) : pr[i].nome = plugins[i].nome /\ pr[i].dados = d

\* C18: for every request with a payload, when the registry is not empty,
\* the process function of every registered plugin is called exactly once
\* with that payload, in registration order, after the cache step and
\* before the response is sent.
C18_PluginsInOrder ==
    \A w \in Workers :
        (Len(plugins) > 0 /\ epc[w] \in {"send", "feito"}) =>
            LET t == traco[w]
            IN  /\ ChamadasEmOrdem(t, edados[w])
                /\ Primeiro(t, "cache") > 0
                /\ (Primeiro(t, "send") > 0) = (epc[w] = "feito")
                /\ \A j \in 1..Len(t) :
                      t[j].ev = "process" =>
                          /\ Primeiro(t, "cache") < j
                          /\ epc[w] = "feito" => j < Primeiro(t, "send")

\* C18 witness: with a full registry, two handlers have each sent the
\* response to a different payload after calling the plugins
C18_Witness ==
    /\ Len(plugins) = MaxPlugins
    /\ \A w \in Workers : epc[w] = "feito" /\ Len(Filtra(traco[w], "process")) = MaxPlugins
    /\ \E w, v \in Workers : edados[w] # edados[v]

\* C19: a plugin whose process call fails does not abort the request: the
\* failure is logged (a log record follows the failed call in the
\* request), every plugin registered after it is still called, and the
\* response is sent.
C19_PluginFailureLogged ==
    \A w \in Workers :
        epc[w] = "feito" =>
            LET t == traco[w]
            IN  \A j \in 1..Len(t) :
                    (t[j].ev = "process" /\ ~t[j].ok) =>
                        /\ \E k \in (j + 1)..Len(t) : t[k].ev = "log"
                        /\ ChamadasEmOrdem(t, edados[w])
                        /\ t[Len(t)].ev = "send"

\* C20: admission of plugins.  An entry is in the registry only if both its
\* init and its process function were resolved and the registry held fewer
\* than MAX_PLUGINS entries; its init ran exactly once, before it was
\* registered; a registration attempted on a full registry leaves the list
\* and the count unchanged; the count never exceeds MAX_PLUGINS, and no
\* entry is ever removed or moved.
C20_Admission ==
    /\ [](/\ Len(plugins) <= MaxPlugins
          /\ \A i \in 1..Len(plugins) :
                /\ plugins[i].init /\ plugins[i].process
                /\ inits[plugins[i].nome] = 1
          /\ cpc = "reg" => inits[plugin.nome] = 1)
    /\ [][/\ plugins' # plugins =>
                /\ Len(plugins) < MaxPlugins
                /\ plugins' = Append(plugins, plugin)
                /\ plugin.init /\ plugin.process
                /\ inits[plugin.nome] = 1 /\ inits' = inits
          /\ (cpc = "reg" /\ cpos' # cpos /\ Len(plugins) = MaxPlugins) =>
                plugins' = plugins
          /\ Len(plugins') >= Len(plugins)
          /\ SubSeq(plugins', 1, Len(plugins)) = plugins]_vars

\* C20 witness: carregar_plugins has returned with a full registry, after
\* a library with both functions, whose init ran, was refused for lack of
\* room
C20_Witness ==
    /\ cpc = "fim" /\ Len(plugins) = MaxPlugins
    /\ \E f \in Arquivos :
          /\ inits[f] = 1
          /\ \A i \in 1..Len(plugins) : plugins[i].nome # f

\* C24: executar_plugins keeps the registry's mutex over its whole loop.
\* While a handler is between its first and its last plugin call of a
\* request, no other handler is inside executar_plugins' loop or makes a
\* plugin call, and the list does not change: the call sequences of two
\* concurrent requests never interleave.
C24_PluginCallsExclusive ==
    /\ [](\A w \in Workers :
            epc[w] = "exec" =>
                /\ mutex_plugins = w
                /\ \A v \in Workers \ {w} : epc[v] # "exec")
    /\ [][/\ \A v \in Workers :
                Len(Filtra(traco'[v], "process")) > Len(Filtra(traco[v], "process")) =>
                    /\ mutex_plugins = v
                    /\ \A w \in Workers \ {v} : epc[w] # "exec" /\ traco'[w] = traco[w]
          /\ (\E w \in Workers : epc[w] = "exec") => plugins' = plugins
          /\ plugins' # plugins => mutex_plugins = SemDono]_vars

\* C24 witness: one handler has made its first plugin call and not its last
\* one, while another handler, at the entry of executar_plugins, waits
C24_Witness ==
    \E w, v \in Workers :
        /\ epc[w] = "exec" /\ ei[w] > 1 /\ ei[w] <= Len(plugins)
        /\ epc[v] = "enter"

----------------------------------------------------------------------------
(* Properties of the balancer's table (SpecBal)                            *)

\* a step of the request pipeline: the handler's logging, cache, plugin or
\* send step
PassoDePedido == epc' # epc \/ traco' # traco \/ ei' # ei

=============================================================================
